---- MODULE Spec2Model ----
(***************************************************************************)
(* A model of the multi-agent to-do application: the JSON-backed record    *)
(* store (src/storage.py), the Planner / Scheduler / Reminder agents       *)
(* (src/agents.py) and the button handlers that drive them (src/app.py).   *)
(*                                                                         *)
(* Python dictionaries are objects: the store's list `self.tasks` holds    *)
(* references, and so do the lists its read operations return.  The model  *)
(* keeps a heap of objects (reference -> record) and lists of references.  *)
(* Times are whole minutes.  A dictionary key that may be missing          *)
(* (completed_date, optimization_score, reminder_type) is a sequence:      *)
(* <<>> when the key is absent, <<v>> when it is present with value v.     *)
(***************************************************************************)
EXTENDS Integers, Sequences, FiniteSets, TLC

VARIABLES
    heap,      \* reference -> the dictionary it points to (live objects only)
    tasks,     \* TaskStorage.tasks: the list of references the store holds
    file,      \* the backing file tasks.json: present or not, and its JSON
    backup,    \* the backup file: present or not, and its JSON
    snap,      \* history: the store's records when the backup was taken
    view,      \* the list a caller holds (returned by a read, or its input)
    result,    \* the list the last agent call returned
    lastOp,    \* the last call: its name, arguments and return value
    fails,     \* number of file writes that have failed so far
    nextId,    \* number of identifiers the Planner has generated
    inputs     \* the records this caller hands to add_task and update_task

vars == <<heap, tasks, file, backup, snap, view, result, lastOp, fails, nextId, inputs>>

(***************************************************************************)
(* Bounds of the model.                                                    *)
(***************************************************************************)
MaxTasks == 2      \* longest list a caller of the store's methods builds
MaxLen == 2        \* longest input list handed to an agent
MaxFail == 1       \* file writes that may fail in one behaviour
MaxCreated == 1    \* tasks the application's form creates in one behaviour

\* identifiers a caller of the store's methods uses
Ids == {1, 2}
Titles == {"t1", "t2"}
Priorities == {"High", "Medium", "Low"}
Statuses == {"pending", "completed"}

\* minutes in one day (timedelta.days counts whole days)
Day == 1440

\* the value datetime.now() returns when a call reads it first; only
\* due_date - now is ever used
Clock == {0}

\* how far the clock may have moved on, in minutes, when the same call reads
\* it again
ClockDrift == {0, 1}

\* the clock read n times in a row by one call: the first read gives the
\* call's time, the later ones that or a later time, never an earlier one
ClockReads(n) ==
    {nows \in [1..n -> {c + d : c \in Clock, d \in ClockDrift}] :
        /\ n > 0 => nows[1] \in Clock
        /\ \A i \in 1..(n - 1) : nows[i] <= nows[i + 1]}

\* due dates handed to the agents, as minutes after the clock's zero:
\* overdue by an hour, 25 min, 45 min, 90 min, 150 min, a day to the minute
\* (one whole day at the first clock value, none a minute later) and four days
DueOffsets == {-60, 25, 45, 90, 150, Day, 4 * Day + 30}

(***************************************************************************)
(* Records.                                                                *)
(***************************************************************************)
\* PlannerAgent.create_task: a new pending record, no completed_date
create_task(id, title, priority, due_date) ==
    [id |-> id, title |-> title, priority |-> priority, due_date |-> due_date,
     status |-> "pending", completed_date |-> <<>>,
     optimization_score |-> <<>>, reminder_type |-> <<>>]

\* the values of the records a list of references points to
Vals(h, refs) == [i \in 1..Len(refs) |-> h[refs[i]]]

\* the smallest reference no live object has
FreshRef(h) ==
    CHOOSE r \in 1..(Cardinality(DOMAIN h) + 1) :
        r \notin DOMAIN h /\ \A q \in 1..(r - 1) : q \in DOMAIN h

Range(s) == {s[i] : i \in 1..Len(s)}

(***************************************************************************)
(* SchedulerAgent.optimize_schedule                                        *)
(***************************************************************************)
priority_scores == [High |-> 3, Medium |-> 2, Low |-> 1]

\* (due_date - datetime.now()).days : whole days, rounded down
days_until_due(rec, now) == (rec.due_date - now) \div Day

urgency_score(rec, now) ==
    LET d == 5 - days_until_due(rec, now) IN IF d > 1 THEN d ELSE 1

optimization_score(rec, now) == urgency_score(rec, now) + priority_scores[rec.priority]

\* the loop of lines 64-72: every pending record gets its score, in place;
\* datetime.now() is read once for each record (line 67): nows[k] is what
\* the k-th read returns
RECURSIVE ScoreAll(_, _, _)
ScoreAll(h, pending, nows) ==
    IF pending = <<>> THEN h
    ELSE LET r == Head(pending)
             h1 == [h EXCEPT ![r].optimization_score =
                                  <<optimization_score(h[r], Head(nows))>>]
         IN ScoreAll(h1, Tail(pending), Tail(nows))

\* x.get('optimization_score', 0)
ScoreKey(rec) == IF rec.optimization_score = <<>> THEN 0 ELSE rec.optimization_score[1]

\* list.sort(key=..., reverse=True): stable, largest key first
RECURSIVE SortDesc(_, _)
SortDesc(h, refs) ==
    IF refs = <<>> THEN <<>>
    ELSE LET i == CHOOSE k \in 1..Len(refs) :
                    /\ \A j \in 1..Len(refs) : ScoreKey(h[refs[j]]) <= ScoreKey(h[refs[k]])
                    /\ \A j \in 1..(k - 1) : ScoreKey(h[refs[j]]) < ScoreKey(h[refs[k]])
             rest == [j \in 1..(Len(refs) - 1) |-> IF j < i THEN refs[j] ELSE refs[j + 1]]
         IN <<refs[i]>> \o SortDesc(h, rest)

\* the list comprehension of line 59
PendingOf(h, list) == SelectSeq(list, LAMBDA r : h[r].status = "pending")

\* optimize_schedule(tasks): scores the pending records in place, sorts the
\* local list pending_tasks, and returns the list it was given; nows are the
\* clock reads, one for each pending record
optimize_schedule(h, list, nows) ==
    LET pending_tasks == PendingOf(h, list)
        h1 == ScoreAll(h, pending_tasks, nows)
        sorted == SortDesc(h1, pending_tasks)
    IN [heap |-> h1, pending_tasks |-> sorted, ret |-> list]

(***************************************************************************)
(* ReminderAgent.check_reminders                                           *)
(***************************************************************************)
reminder_thresholds ==
    [High |-> <<120, 60, 30>>, Medium |-> <<60, 30>>, Low |-> <<30>>]

\* f"due_in_{threshold}" : str() of a timedelta
ThresholdName(minutes) ==
    CASE minutes = 120 -> "due_in_2:00:00"
      [] minutes = 60 -> "due_in_1:00:00"
      [] minutes = 30 -> "due_in_0:30:00"

\* the inner loop of lines 134-139: the first threshold, in list order, that
\* time_until_due does not exceed (0 when there is none)
RECURSIVE FirstThreshold(_, _)
FirstThreshold(thresholds, time_until_due) ==
    IF thresholds = <<>> THEN 0
    ELSE IF time_until_due <= Head(thresholds) THEN Head(thresholds)
    ELSE FirstThreshold(Tail(thresholds), time_until_due)

\* `task not in reminders`: list membership compares dictionaries by value
NotIn(h, ref, reminders) == \A k \in 1..Len(reminders) : h[reminders[k]] # h[ref]

\* the outer loop of lines 118-139 over the rest of the list
RECURSIVE RemindLoop(_, _, _, _)
RemindLoop(h, list, reminders, now) ==
    IF list = <<>> THEN [heap |-> h, ret |-> reminders]
    ELSE LET r == Head(list)
             time_until_due == h[r].due_date - now
             thresholds == IF h[r].priority \in DOMAIN reminder_thresholds
                           THEN reminder_thresholds[h[r].priority] ELSE <<30>>
             th == FirstThreshold(thresholds, time_until_due)
         IN IF h[r].status = "completed"
            THEN RemindLoop(h, Tail(list), reminders, now)
            ELSE IF time_until_due < 0
            THEN RemindLoop([h EXCEPT ![r].reminder_type = <<"overdue">>],
                            Tail(list), Append(reminders, r), now)
            ELSE IF th # 0
            THEN LET h1 == [h EXCEPT ![r].reminder_type = <<ThresholdName(th)>>]
                 IN RemindLoop(h1, Tail(list),
                               IF NotIn(h1, r, reminders) THEN Append(reminders, r)
                               ELSE reminders, now)
            ELSE RemindLoop(h, Tail(list), reminders, now)

check_reminders(h, list, now) == RemindLoop(h, list, <<>>, now)

(***************************************************************************)
(* The agents applied to every short list of records: the specification    *)
(* of the two pure functions.  The list is the caller's (view); the        *)
(* store is not involved.                                                  *)
(***************************************************************************)
\* a path where no file is
NoFile == [present |-> FALSE, valid |-> FALSE, objs |-> <<>>]

\* a file json.dump has written to its end: valid JSON, one object per record
Written(objs) == [present |-> TRUE, valid |-> TRUE, objs |-> objs]

\* a file opened for writing (which empties it) whose write failed: it holds
\* nothing or the beginning of the new text, which is not JSON
Truncated == [present |-> TRUE, valid |-> FALSE, objs |-> <<>>]

AgentInputs ==
    {[create_task(id, "t1", p, d) EXCEPT !.status = s] :
        id \in Ids, p \in Priorities, d \in DueOffsets, s \in Statuses}

InitAgents ==
    /\ \E n \in 0..MaxLen : \E recs \in [1..n -> AgentInputs] :
          /\ heap = recs
          /\ view = [i \in 1..n |-> i]
    /\ tasks = <<>>
    /\ file = NoFile
    /\ backup = NoFile
    /\ snap = <<>>
    /\ result = <<>>
    /\ lastOp = [op |-> "init", id |-> 0, arg |-> <<>>, ret |-> TRUE]
    /\ fails = 0
    /\ nextId = 0
    /\ inputs = {}

\* organized_tasks = scheduler.optimize_schedule(tasks)
OptimizeSchedule ==
    /\ lastOp.op = "init"
    /\ \E nows \in ClockReads(Len(PendingOf(heap, view))) :
          LET o == optimize_schedule(heap, view, nows)
          IN /\ heap' = o.heap
             /\ result' = o.ret
    /\ lastOp' = [lastOp EXCEPT !.op = "optimize_schedule"]
    /\ UNCHANGED <<tasks, file, backup, snap, view, fails, nextId, inputs>>

\* reminders = reminder.check_reminders(tasks)
CheckReminders ==
    /\ lastOp.op = "init"
    /\ \E now \in Clock :
          LET c == check_reminders(heap, view, now)
          IN /\ heap' = c.heap
             /\ result' = c.ret
             /\ lastOp' = [lastOp EXCEPT !.op = "check_reminders", !.arg = <<now>>]
    /\ UNCHANGED <<tasks, file, backup, snap, view, fails, nextId, inputs>>

NextAgents == OptimizeSchedule \/ CheckReminders

SpecAgents == InitAgents /\ [][NextAgents]_vars

(***************************************************************************)
(* JSON: json.dump writes one object per record, holding the keys the      *)
(* dictionary has; json.load builds new dictionaries from the objects.     *)
(***************************************************************************)
RequiredKeys == {"id", "title", "priority", "due_date", "status"}
OptionalKeys == {"completed_date", "optimization_score", "reminder_type"}

json_dump_rec(rec) ==
    [k \in RequiredKeys \cup {o \in OptionalKeys : rec[o] # <<>>} |->
        IF k \in OptionalKeys THEN rec[k][1] ELSE rec[k]]

json_load_obj(obj) ==
    [k \in RequiredKeys \cup OptionalKeys |->
        IF k \in OptionalKeys
        THEN (IF k \in DOMAIN obj THEN <<obj[k]>> ELSE <<>>)
        ELSE obj[k]]

\* json.dump(self.tasks, f, indent=2, default=str)
json_dump(recs) == [i \in 1..Len(recs) |-> json_dump_rec(recs[i])]

\* json.load(f)
json_load(objs) == [i \in 1..Len(objs) |-> json_load_obj(objs[i])]

(***************************************************************************)
(* TaskStorage.  Each operator is one method: from the heap, the store's   *)
(* list and the files to their values after the call and the value         *)
(* returned.  `w` is the outcome of writing a file: "ok", "open_fails"     *)
(* (open raises, the file is as it was) or "write_fails" (open has emptied *)
(* the file and json.dump raises before its end).                          *)
(***************************************************************************)
\* _load_tasks: the records of the file; none when the file is missing or
\* is not JSON
_load_tasks(f) == IF f.present /\ f.valid THEN json_load(f.objs) ELSE <<>>

\* with open(name, 'w') as f: json.dump(self.tasks, f, ...): the file after it
write_file(h, ts, f, w) ==
    CASE w = "ok" -> Written(json_dump(Vals(h, ts)))
      [] w = "open_fails" -> f
      [] w = "write_fails" -> Truncated

\* _save_tasks: rewrites the whole file; an exception is printed and swallowed
_save_tasks(h, ts, f, w) == write_file(h, ts, f, w)

\* add_task(task): appends the caller's dictionary and saves
add_task(h, ts, f, ref, w) ==
    LET ts1 == Append(ts, ref)
    IN [tasks |-> ts1, file |-> _save_tasks(h, ts1, f, w), ret |-> TRUE]

\* the index of the first record with this id (0 when there is none)
IndexOf(h, ts, id) ==
    IF \E i \in 1..Len(ts) : h[ts[i]].id = id
    THEN CHOOSE i \in 1..Len(ts) :
            h[ts[i]].id = id /\ \A j \in 1..(i - 1) : h[ts[j]].id # id
    ELSE 0

\* update_task with the replacement lost: the match is found, the list keeps
\* the old dictionary, the file is saved and True returned
update_task_keeps(h, ts, f, id, ref, w) ==
    IF IndexOf(h, ts, id) # 0
    THEN [tasks |-> ts, file |-> _save_tasks(h, ts, f, w), ret |-> TRUE]
    ELSE [tasks |-> ts, file |-> f, ret |-> FALSE]

\* update_task(task_id, updated_task): replaces the first match and saves
update_task(h, ts, f, id, ref, w) ==
    LET i == IndexOf(h, ts, id)
        ts1 == [ts EXCEPT ![i] = ref]
    IN IF i # 0
       THEN [tasks |-> ts1, file |-> _save_tasks(h, ts1, f, w), ret |-> TRUE]
       ELSE [tasks |-> ts, file |-> f, ret |-> FALSE]

\* delete_task(task_id): filters the list, saves, returns True
delete_task(h, ts, f, id, w) ==
    LET ts1 == SelectSeq(ts, LAMBDA r : h[r].id # id)
    IN [tasks |-> ts1, file |-> _save_tasks(h, ts1, f, w), ret |-> TRUE]

\* get_all_tasks: a new list of the same dictionaries (list.copy is shallow)
get_all_tasks(h, ts) == [heap |-> h, ret |-> ts]

\* get_task_by_id: a new dictionary with the fields of the first match
\* (dict.copy), or None: here the empty list
get_task_by_id(h, ts, id) ==
    LET i == IndexOf(h, ts, id)
        c == FreshRef(h)
    IN IF i # 0
       THEN [heap |-> [r \in DOMAIN h \cup {c} |-> IF r = c THEN h[ts[i]] ELSE h[r]],
             ret |-> <<c>>]
       ELSE [heap |-> h, ret |-> <<>>]

\* get_tasks_by_status: a new list of the matching dictionaries themselves
get_tasks_by_status(h, ts, status) ==
    [heap |-> h, ret |-> SelectSeq(ts, LAMBDA r : h[r].status = status)]

\* get_tasks_by_priority: a new list of the matching dictionaries themselves
get_tasks_by_priority(h, ts, priority) ==
    [heap |-> h, ret |-> SelectSeq(ts, LAMBDA r : h[r].priority = priority)]

\* get_overdue_tasks: the dictionaries that are not completed and past due
get_overdue_tasks(h, ts, now) ==
    [heap |-> h,
     ret |-> SelectSeq(ts, LAMBDA r : h[r].status # "completed" /\ h[r].due_date < now)]

\* backup_tasks(backup_filename): writes the records to the backup file
backup_tasks(h, ts, b, w) ==
    [backup |-> write_file(h, ts, b, w), ret |-> (w = "ok")]

\* new dictionaries for the loaded records, one after the other
RECURSIVE Alloc(_, _, _)
Alloc(h, recs, refs) ==
    IF recs = <<>> THEN [heap |-> h, refs |-> refs]
    ELSE LET c == FreshRef(h)
         IN Alloc([r \in DOMAIN h \cup {c} |-> IF r = c THEN Head(recs) ELSE h[r]],
                  Tail(recs), Append(refs, c))

\* the files restore_from_backup may be pointed at: the backup written by
\* backup_tasks, a path where no file is, a file that is not JSON
BackupNames == {"backup", "missing", "corrupt"}

\* whether open() and json.load() of that file succeed
Readable(b, name) == name = "backup" /\ b.present /\ b.valid

\* restore_from_backup that adds the loaded records to the list it has
restore_from_backup_appends(h, ts, f, b, name, w) ==
    IF Readable(b, name)
    THEN LET a == Alloc(h, json_load(b.objs), <<>>)
         IN [heap |-> a.heap, tasks |-> ts \o a.refs,
             file |-> _save_tasks(a.heap, ts \o a.refs, f, w), ret |-> TRUE]
    ELSE [heap |-> h, tasks |-> ts, file |-> f, ret |-> FALSE]

\* restore_from_backup that falls back to an empty list, as _load_tasks
\* does, when the file cannot be read
restore_from_backup_clears(h, ts, f, b, name, w) ==
    IF Readable(b, name)
    THEN LET a == Alloc(h, json_load(b.objs), <<>>)
         IN [heap |-> a.heap, tasks |-> a.refs,
             file |-> _save_tasks(a.heap, a.refs, f, w), ret |-> TRUE]
    ELSE [heap |-> h, tasks |-> <<>>, file |-> f, ret |-> FALSE]

\* restore_from_backup(backup_filename): on a failed open or parse nothing
\* is assigned; otherwise the list is replaced by the loaded records and saved
restore_from_backup(h, ts, f, b, name, w) ==
    IF Readable(b, name)
    THEN LET a == Alloc(h, json_load(b.objs), <<>>)
         IN [heap |-> a.heap, tasks |-> a.refs,
             file |-> _save_tasks(a.heap, a.refs, f, w), ret |-> TRUE]
    ELSE [heap |-> h, tasks |-> ts, file |-> f, ret |-> FALSE]

(***************************************************************************)
(* The store driven through its methods by an arbitrary caller.            *)
(***************************************************************************)
\* the outcomes of writing a file that are still allowed
WriteOutcomes ==
    IF fails < MaxFail THEN {"ok", "open_fails", "write_fails"} ELSE {"ok"}

Failed(w) == IF w = "ok" THEN 0 ELSE 1

\* the heap with one more object, at the reference FreshRef gives
New(h, rec) == [r \in DOMAIN h \cup {FreshRef(h)} |-> IF r = FreshRef(h) THEN rec ELSE h[r]]

RECURSIVE Dedup(_, _)
Dedup(s, acc) ==
    IF s = <<>> THEN acc
    ELSE Dedup(Tail(s), IF Head(s) \in Range(acc) THEN acc ELSE Append(acc, Head(s)))

Pos(order, r) == CHOOSE i \in 1..Len(order) : order[i] = r

\* References are opaque: after a call the objects nothing refers to are
\* dropped and the others are numbered in the order the store's list, the
\* caller's list and the returned list mention them.
Canon(h, ts, v, res) ==
    LET order == Dedup(ts \o v \o res, <<>>)
    IN [heap |-> [i \in 1..Len(order) |-> h[order[i]]],
        tasks |-> [i \in 1..Len(ts) |-> Pos(order, ts[i])],
        view |-> [i \in 1..Len(v) |-> Pos(order, v[i])],
        result |-> [i \in 1..Len(res) |-> Pos(order, res[i])]]

\* records a caller hands to add_task and update_task
StoreInputs == {create_task(id, t, "Medium", 90) : id \in Ids, t \in Titles}

\* TaskStorage() where no file is: an empty list; `ins` are the records the
\* caller will use, `failed` the file writes that have failed already
InitWith(ins, failed) ==
    /\ heap = <<>>
    /\ tasks = <<>>
    /\ file = NoFile
    /\ backup = NoFile
    /\ snap = <<>>
    /\ view = <<>>
    /\ result = <<>>
    /\ lastOp = [op |-> "init", id |-> 0, arg |-> <<>>, ret |-> TRUE]
    /\ fails = failed
    /\ nextId = 0
    /\ inputs = ins

Init == InitWith(StoreInputs, 0)

\* storage.add_task(r) with a dictionary the caller has just built
AddTask ==
    /\ Len(tasks) < MaxTasks
    /\ \E rec \in inputs : \E w \in WriteOutcomes :
       \E a \in {add_task(New(heap, rec), tasks, file, FreshRef(heap), w)} :
       \E c \in {Canon(New(heap, rec), a.tasks, view, result)} :
          /\ heap' = c.heap
          /\ tasks' = c.tasks
          /\ view' = c.view
          /\ result' = c.result
          /\ file' = a.file
          /\ lastOp' = [op |-> "add_task", id |-> rec.id, arg |-> <<rec>>, ret |-> a.ret]
          /\ fails' = fails + Failed(w)
    /\ UNCHANGED <<backup, snap, nextId, inputs>>

\* storage.update_task(id, r) with a dictionary the caller has just built
UpdateTask ==
    /\ \E id \in Ids : \E rec \in inputs : \E w \in WriteOutcomes :
       \E u \in {update_task(New(heap, rec), tasks, file, id, FreshRef(heap), w)} :
       \E c \in {Canon(New(heap, rec), u.tasks, view, result)} :
          /\ (u.ret \/ w = "ok")
          /\ heap' = c.heap
          /\ tasks' = c.tasks
          /\ view' = c.view
          /\ result' = c.result
          /\ file' = u.file
          /\ lastOp' = [op |-> "update_task", id |-> id, arg |-> <<rec>>, ret |-> u.ret]
          /\ fails' = fails + (IF u.ret THEN Failed(w) ELSE 0)
    /\ UNCHANGED <<backup, snap, nextId, inputs>>

\* storage.delete_task(id)
DeleteTask ==
    /\ \E id \in Ids : \E w \in WriteOutcomes :
       \E d \in {delete_task(heap, tasks, file, id, w)} :
       \E c \in {Canon(heap, d.tasks, view, result)} :
          /\ heap' = c.heap
          /\ tasks' = c.tasks
          /\ view' = c.view
          /\ result' = c.result
          /\ file' = d.file
          /\ lastOp' = [op |-> "delete_task", id |-> id, arg |-> <<>>, ret |-> d.ret]
          /\ fails' = fails + Failed(w)
    /\ UNCHANGED <<backup, snap, nextId, inputs>>

\* storage.backup_tasks(f)
BackupTasks ==
    /\ \E w \in WriteOutcomes :
       \E b \in {backup_tasks(heap, tasks, backup, w)} :
          /\ backup' = b.backup
          /\ snap' = IF b.ret THEN Vals(heap, tasks) ELSE snap
          /\ lastOp' = [op |-> "backup_tasks", id |-> 0, arg |-> <<>>, ret |-> b.ret]
          /\ fails' = fails + Failed(w)
    /\ UNCHANGED <<heap, tasks, file, view, result, nextId, inputs>>

\* storage.restore_from_backup(f)
RestoreFromBackup ==
    /\ \E name \in BackupNames : \E w \in WriteOutcomes :
       \E r \in {restore_from_backup(heap, tasks, file, backup, name, w)} :
       \E c \in {Canon(r.heap, r.tasks, view, result)} :
          /\ (r.ret \/ w = "ok")
          /\ heap' = c.heap
          /\ tasks' = c.tasks
          /\ view' = c.view
          /\ result' = c.result
          /\ file' = r.file
          /\ lastOp' = [op |-> "restore_from_backup", id |-> 0, arg |-> <<name>>,
                        ret |-> r.ret]
          /\ fails' = fails + (IF r.ret THEN Failed(w) ELSE 0)
    /\ UNCHANGED <<backup, snap, nextId, inputs>>

Next == AddTask \/ UpdateTask \/ DeleteTask

Spec == Init /\ [][Next]_vars

\* the store with its backup: the records of this caller differ in their id
BackupInputs == {create_task(id, "t1", "Medium", 90) : id \in Ids}

InitBackup == InitWith(BackupInputs, 0)

NextBackup == AddTask \/ UpdateTask \/ DeleteTask \/ BackupTasks \/ RestoreFromBackup

SpecBackup == InitBackup /\ [][NextBackup]_vars

(***************************************************************************)
(* A caller that reads the store and then works on what it was given: the  *)
(* agents and the interface change fields of the dictionaries they hold.   *)
(***************************************************************************)
\* records in the store of this caller: one due in 25 minutes, one overdue
AliasInputs == {create_task(1, "t1", "High", 25), create_task(2, "t1", "Low", -60)}

\* a button that toggles: a completed task goes back to pending
mark_complete_toggles(rec, now) ==
    IF rec.status = "completed"
    THEN [rec EXCEPT !.status = "pending", !.completed_date = <<>>]
    ELSE [rec EXCEPT !.status = "completed", !.completed_date = <<now>>]

\* a Mark Complete that sets the status and leaves completed_date out
mark_complete_undated(rec, now) == [rec EXCEPT !.status = "completed"]

\* task['status'] = 'completed'; task['completed_date'] = datetime.now().isoformat()
mark_complete(rec, now) == [rec EXCEPT !.status = "completed", !.completed_date = <<now>>]

\* what a read gives the caller: its list replaces the one the caller held
Returned(op, g) ==
    \E c \in {Canon(g.heap, tasks, g.ret, <<>>)} :
        /\ heap' = c.heap
        /\ tasks' = c.tasks
        /\ view' = c.view
        /\ result' = c.result
        /\ lastOp' = [op |-> op, id |-> 0, arg |-> <<>>, ret |-> TRUE]
        /\ UNCHANGED <<file, backup, snap, fails, nextId, inputs>>

GetAllTasks == Returned("get_all_tasks", get_all_tasks(heap, tasks))

GetTaskById == \E id \in Ids : Returned("get_task_by_id", get_task_by_id(heap, tasks, id))

GetTasksByStatus ==
    \E st \in Statuses : Returned("get_tasks_by_status", get_tasks_by_status(heap, tasks, st))

GetTasksByPriority ==
    \E p \in Priorities :
        Returned("get_tasks_by_priority", get_tasks_by_priority(heap, tasks, p))

GetOverdueTasks ==
    \E now \in Clock : Returned("get_overdue_tasks", get_overdue_tasks(heap, tasks, now))

\* the caller has changed objects it holds; the store was not called
Mutated(op, h, res) ==
    \E c \in {Canon(h, tasks, view, res)} :
        /\ heap' = c.heap
        /\ tasks' = c.tasks
        /\ view' = c.view
        /\ result' = c.result
        /\ lastOp' = [op |-> op, id |-> 0, arg |-> <<>>, ret |-> TRUE]
        /\ UNCHANGED <<file, backup, snap, fails, nextId, inputs>>

\* reminder.check_reminders(tasks) on the list a read returned
CallerCheckReminders ==
    /\ view # <<>>
    /\ \E now \in Clock : \E c \in {check_reminders(heap, view, now)} :
          Mutated("check_reminders", c.heap, c.ret)

\* scheduler.optimize_schedule(tasks) on the list a read returned
CallerOptimizeSchedule ==
    /\ view # <<>>
    /\ \E nows \in ClockReads(Len(PendingOf(heap, view))) :
       \E o \in {optimize_schedule(heap, view, nows)} :
          Mutated("optimize_schedule", o.heap, o.ret)

\* the interface sets the status of a record it displays
CallerSetStatus ==
    \E i \in 1..Len(view) : \E now \in Clock :
        Mutated("set_status", [heap EXCEPT ![view[i]] = mark_complete(heap[view[i]], now)],
                <<>>)

\* storage.update_task(task['id'], task) with a record the caller holds
UpdateTaskHeld ==
    \E i \in 1..Len(view) :
    \E u \in {update_task(heap, tasks, file, heap[view[i]].id, view[i], "ok")} :
    \E c \in {Canon(heap, u.tasks, view, <<>>)} :
        /\ heap' = c.heap
        /\ tasks' = c.tasks
        /\ view' = c.view
        /\ result' = c.result
        /\ file' = u.file
        /\ lastOp' = [op |-> "update_task", id |-> heap[view[i]].id, arg |-> <<>>,
                      ret |-> u.ret]
        /\ UNCHANGED <<backup, snap, fails, nextId, inputs>>

NextAlias ==
    \/ AddTask
    \/ GetAllTasks
    \/ GetTaskById
    \/ GetTasksByStatus
    \/ GetTasksByPriority
    \/ GetOverdueTasks
    \/ CallerCheckReminders
    \/ CallerOptimizeSchedule
    \/ CallerSetStatus
    \/ UpdateTaskHeld

\* this caller's writes do not fail
InitAlias == InitWith(AliasInputs, MaxFail)

SpecAlias == InitAlias /\ [][NextAlias]_vars

(***************************************************************************)
(* The application: the handlers of src/app.py.  Every script run starts   *)
(* with storage = TaskStorage() (line 9), which loads the backing file     *)
(* again, and runs at most one handler; the handler works on the list      *)
(* get_all_tasks returned, so on that store's own dictionaries.  A handler *)
(* that ends with st.rerun() is followed at once by another script run,    *)
(* so by another load.  Of a record's fields the model keeps the ones      *)
(* above; description, created_date, estimated_duration, tags and the      *)
(* fields schedule_task adds (scheduled_time, preparation_time,            *)
(* buffer_time) are written once at creation and read by no handler.       *)
(***************************************************************************)
\* what the forms are filled with: the edit form changes the title
AppTitles == {"t1", "t2"}
AppPriorities == {"High"}
AppDues == {25}

\* TaskStorage(): a new store whose list is what _load_tasks gives: new
\* dictionaries, numbered in the order of the list
TaskStorage(f) ==
    LET recs == _load_tasks(f) IN [heap |-> recs, tasks |-> [i \in 1..Len(recs) |-> i]]

\* task['title'] = new_title; task['priority'] = new_priority
edit_save(rec, title, priority) == [rec EXCEPT !.title = title, !.priority = priority]

\* the end of a script run whose handler called st.rerun(): the next run
\* has built its store from the file the handler left
Rerun(f, op, ret, failed) ==
    \E s \in {TaskStorage(f)} :
        /\ heap' = s.heap
        /\ tasks' = s.tasks
        /\ file' = f
        /\ lastOp' = [op |-> op, id |-> 0, arg |-> <<>>, ret |-> ret]
        /\ fails' = fails + failed
        /\ UNCHANGED <<backup, snap, view, result, inputs>>

\* "Add Task": planner.create_task, scheduler.schedule_task, storage.add_task,
\* st.rerun(); the id is a fresh uuid4
AddTaskForm ==
    /\ nextId < MaxCreated
    /\ \E title \in AppTitles : \E p \in AppPriorities : \E due \in AppDues :
       \E w \in WriteOutcomes :
       \E s \in {TaskStorage(file)} :
       \E rec \in {create_task(nextId + 1, title, p, due)} :
       \E a \in {add_task(New(s.heap, rec), s.tasks, file, FreshRef(s.heap), w)} :
          Rerun(a.file, "add_form", a.ret, Failed(w))
    /\ nextId' = nextId + 1

\* "Mark Complete" on a displayed task, st.rerun()
MarkComplete ==
    /\ \E s \in {TaskStorage(file)} :
       \E i \in 1..Len(s.tasks) : \E now \in Clock : \E w \in WriteOutcomes :
       \E h \in {[s.heap EXCEPT ![s.tasks[i]] = mark_complete(s.heap[s.tasks[i]], now)]} :
       \E u \in {update_task(h, s.tasks, file, h[s.tasks[i]].id, s.tasks[i], w)} :
          Rerun(u.file, "mark_complete", u.ret, Failed(w))
    /\ UNCHANGED nextId

\* "Save Changes" of the edit form of a displayed task, st.rerun()
EditSave ==
    /\ \E s \in {TaskStorage(file)} :
       \E i \in 1..Len(s.tasks) : \E title \in AppTitles : \E p \in AppPriorities :
       \E w \in WriteOutcomes :
       \E h \in {[s.heap EXCEPT ![s.tasks[i]] = edit_save(s.heap[s.tasks[i]], title, p)]} :
       \E u \in {update_task(h, s.tasks, file, h[s.tasks[i]].id, s.tasks[i], w)} :
          Rerun(u.file, "edit_save", u.ret, Failed(w))
    /\ UNCHANGED nextId

\* the outcomes of n writes in a row of which the budget allows `left` to fail
WriteRuns(n, left) ==
    {ws \in [1..n -> {"ok", "open_fails", "write_fails"}] :
        Cardinality({k \in 1..n : ws[k] # "ok"}) <= left}

\* the loop of lines 93-94: update_task for every task of the list; the
\* records were all scored before the first call; ws are the outcomes of
\* the saves, one for each call
RECURSIVE UpdateAll(_, _, _, _, _)
UpdateAll(h, ts, f, list, ws) ==
    IF list = <<>> THEN [tasks |-> ts, file |-> f]
    ELSE LET u == update_task(h, ts, f, h[Head(list)].id, Head(list), Head(ws))
         IN UpdateAll(h, u.tasks, u.file, Tail(list), Tail(ws))

\* "Auto-Organize": get_all_tasks, optimize_schedule, update_task for each;
\* the script run goes on to its end with this store; with no record loaded
\* the handler runs all the same and changes nothing
AutoOrganize ==
    /\ \E s \in {TaskStorage(file)} :
       \E nows \in ClockReads(Len(PendingOf(s.heap, s.tasks))) :
       \E ws \in WriteRuns(Len(s.tasks), MaxFail - fails) :
       \E o \in {optimize_schedule(s.heap, get_all_tasks(s.heap, s.tasks).ret, nows)} :
       \E u \in {UpdateAll(o.heap, s.tasks, file, o.ret, ws)} :
          /\ heap' = o.heap
          /\ tasks' = u.tasks
          /\ file' = u.file
          /\ lastOp' = [op |-> "auto_organize", id |-> 0, arg |-> <<>>, ret |-> TRUE]
          /\ fails' = fails + Cardinality({k \in 1..Len(ws) : ws[k] # "ok"})
    /\ UNCHANGED <<backup, snap, view, result, nextId, inputs>>

\* "Delete Task" on a displayed task, st.rerun()
DeleteButton ==
    /\ \E s \in {TaskStorage(file)} :
       \E i \in 1..Len(s.tasks) : \E w \in WriteOutcomes :
       \E d \in {delete_task(s.heap, s.tasks, file, s.heap[s.tasks[i]].id, w)} :
          Rerun(d.file, "delete_button", d.ret, Failed(w))
    /\ UNCHANGED nextId

\* "Check Reminders": get_all_tasks, check_reminders on the store's own
\* dictionaries; nothing is saved and the script run goes on to its end
CheckRemindersButton ==
    /\ \E s \in {TaskStorage(file)} : \E now \in Clock :
       \E c \in {check_reminders(s.heap, get_all_tasks(s.heap, s.tasks).ret, now)} :
          /\ heap' = c.heap
          /\ tasks' = s.tasks
          /\ lastOp' = [op |-> "check_reminders_button", id |-> 0, arg |-> <<>>,
                        ret |-> TRUE]
    /\ UNCHANGED <<file, backup, snap, view, result, fails, nextId, inputs>>

\* a script run whose handler touches no record (Edit, Cancel, a filter,
\* Add Task with no title, the refresh), or one with no handler at all: the
\* store is built from the file and shown
ScriptRun ==
    /\ \E s \in {TaskStorage(file)} :
          /\ heap' = s.heap
          /\ tasks' = s.tasks
          /\ lastOp' = [op |-> "script_run", id |-> 0, arg |-> <<>>, ret |-> TRUE]
    /\ UNCHANGED <<file, backup, snap, view, result, fails, nextId, inputs>>

NextApp ==
    \/ AddTaskForm
    \/ MarkComplete
    \/ EditSave
    \/ AutoOrganize
    \/ DeleteButton
    \/ CheckRemindersButton
    \/ ScriptRun
    \/ BackupTasks
    \/ RestoreFromBackup

\* the application started where no file is, on a disk that takes every write
InitApp == InitWith({}, MaxFail)

SpecApp == InitApp /\ [][NextApp]_vars

\* the same application on a disk where up to MaxFail writes fail
InitAppFailing == InitWith({}, 0)

SpecAppFailing == InitAppFailing /\ [][NextApp]_vars

(***************************************************************************)
(* C1, C2: the two agents on every input list.                             *)
(***************************************************************************)
IsPending(r) == heap[r].status = "pending"

\* C1: optimize_schedule returns the pending records ordered by
\* optimization_score, largest first: of two pending records of the returned
\* list, the one with the larger score comes first.
C1_ReturnedByScoreDescending ==
    lastOp.op = "optimize_schedule" =>
        \A i, j \in 1..Len(result) :
            ( /\ IsPending(result[i]) /\ IsPending(result[j])
              /\ ScoreKey(heap[result[i]]) > ScoreKey(heap[result[j]]) ) => i < j

\* the tightest threshold of the record's priority tier that time_until_due
\* satisfies (0 when it satisfies none)
TightestThreshold(rec, now) ==
    LET ths == {reminder_thresholds[rec.priority][k] :
                    k \in 1..Len(reminder_thresholds[rec.priority])}
        ok == {t \in ths : rec.due_date - now <= t}
    IN IF ok = {} THEN 0 ELSE CHOOSE t \in ok : \A u \in ok : t <= u

\* C2: check_reminders gives a pending record that is not overdue the
\* reminder_type of the tightest threshold of its priority tier that
\* time_until_due satisfies; a High record due in 25 minutes is due_in_0:30:00.
C2_TightestThresholdNamed ==
    lastOp.op = "check_reminders" =>
        \A i \in 1..Len(view) :
            LET rec == heap[view[i]]
                now == lastOp.arg[1] IN
            ( /\ rec.status = "pending"
              /\ rec.due_date - now >= 0
              /\ TightestThreshold(rec, now) # 0 )
            => rec.reminder_type = <<ThresholdName(TightestThreshold(rec, now))>>

(***************************************************************************)
(* C3 .. C10: the store and the application.                               *)
(***************************************************************************)
\* the ids of the records a list holds
StoredIds(h, ts) == {h[ts[i]].id : i \in 1..Len(ts)}

\* no two records of the list have the same id
UniqueIds(recs) == \A i, j \in 1..Len(recs) : i # j => recs[i].id # recs[j].id

\* what get_task_by_id(id) gives: <<>> for None, else the one record
ReadBack(h, ts, id) ==
    LET g == get_task_by_id(h, ts, id) IN Vals(g.heap, g.ret)

\* C3: the records a read returns are independent copies: when the caller
\* changes a field of a record it holds (check_reminders, optimize_schedule,
\* the interface setting the status) the store's records stay as they were.
C3_ReturnedRecordsAreCopies ==
    [][lastOp'.op \in {"check_reminders", "optimize_schedule", "set_status"}
          => Vals(heap', tasks') = Vals(heap, tasks)]_vars

\* C4: update_task and delete_task of an id no stored record has return
\* False and leave the records in memory and the backing file as they were.
C4_UnknownIdReportsFailure ==
    [][(/\ lastOp'.op \in {"update_task", "delete_task"}
        /\ lastOp'.id \notin StoredIds(heap, tasks))
          => (/\ lastOp'.ret = FALSE
              /\ Vals(heap', tasks') = Vals(heap, tasks)
              /\ file' = file)]_vars

\* C5: when the write of the backing file fails in add_task, update_task or
\* delete_task, the call returns False and the records in memory are the
\* ones from before the call.
C5_FailedWriteReportsFailure ==
    [][(/\ lastOp'.op \in {"add_task", "update_task", "delete_task"}
        /\ fails' > fails)
          => (/\ lastOp'.ret = FALSE
              /\ Vals(heap', tasks') = Vals(heap, tasks))]_vars

\* C6: after backup_tasks(f) succeeded in state S, restore_from_backup(f)
\* returns True and leaves exactly S, in memory and in the backing file,
\* whatever add_task, update_task and delete_task did in between.
C6_RestoreGivesBackedUpState ==
    (lastOp.op = "restore_from_backup" /\ Readable(backup, lastOp.arg[1]))
        => (/\ lastOp.ret
            /\ Vals(heap, tasks) = snap
            /\ _load_tasks(file) = snap)

\* C7 as stated: in every reachable state of the store no two records have
\* the same id.
C7_IdsUnique == UniqueIds(Vals(heap, tasks))

\* the caller keeps to the ids: add_task gets a record whose id no stored
\* record has, update_task(id, r) gets a record r with r.id = id
KeepsIds ==
    /\ lastOp'.op = "add_task" => lastOp'.id \notin StoredIds(heap, tasks)
    /\ lastOp'.op = "update_task" => lastOp'.arg[1].id = lastOp'.id

\* C7, amended: while ids are unique in the store and in the backup, every
\* call that keeps to the ids (add_task with an id no stored record has,
\* update_task(id, r) with r.id = id, delete_task, backup_tasks,
\* restore_from_backup) leaves them unique in both.
C7_IdsUniqueWhenCallerKeepsIds ==
    [][(/\ UniqueIds(Vals(heap, tasks))
        /\ UniqueIds(json_load(backup.objs))
        /\ KeepsIds)
          => (/\ UniqueIds(Vals(heap', tasks'))
              /\ UniqueIds(json_load(backup'.objs)))]_vars

\* C7's case: a restore brought back two records, with different ids
C7_Witness ==
    /\ lastOp.op = "restore_from_backup"
    /\ lastOp.ret
    /\ Len(tasks) = 2
    /\ UniqueIds(Vals(heap, tasks))

\* C8 as stated: after add_task(r) returned True get_task_by_id(r.id) gives a
\* record equal to r, and after update_task(id, r) returned True
\* get_task_by_id(id) gives a record equal to r.
C8_ReadYourWrites ==
    (lastOp.op \in {"add_task", "update_task"} /\ lastOp.ret)
        => ReadBack(heap, tasks, lastOp.id) = lastOp.arg

\* C8, amended: after add_task(r) returned True, where no stored record had
\* r's id, get_task_by_id(r.id) gives a record equal to r and the other
\* records are as before; after update_task(id, r) returned True, where
\* r.id = id, get_task_by_id(id) gives a record equal to r and only the
\* first record with that id has changed.
C8_ReadYourWritesWhenIdsKept ==
    [][/\ (/\ lastOp'.op = "add_task" /\ lastOp'.ret
           /\ lastOp'.id \notin StoredIds(heap, tasks))
            => (/\ ReadBack(heap', tasks', lastOp'.id) = lastOp'.arg
                /\ Vals(heap', tasks') = Vals(heap, tasks) \o lastOp'.arg)
       /\ (/\ lastOp'.op = "update_task" /\ lastOp'.ret
           /\ lastOp'.arg[1].id = lastOp'.id)
            => (/\ ReadBack(heap', tasks', lastOp'.id) = lastOp'.arg
                /\ Vals(heap', tasks') =
                     [Vals(heap, tasks) EXCEPT ![IndexOf(heap, tasks, lastOp'.id)] =
                         lastOp'.arg[1]])]_vars

\* C8's case: update_task replaced the title of the second of two records
C8_Witness ==
    /\ lastOp.op = "update_task"
    /\ lastOp.ret
    /\ lastOp.arg[1].id = lastOp.id
    /\ Len(tasks) = 2
    /\ heap[tasks[1]].id # lastOp.id
    /\ heap[tasks[1]].title # lastOp.arg[1].title
    /\ heap[tasks[2]] = lastOp.arg[1]

\* C9: restore_from_backup of a file that is missing or is not JSON returns
\* False and leaves the records in memory and the backing file as they were.
C9_FailedRestoreChangesNothing ==
    [][(/\ lastOp'.op = "restore_from_backup"
        /\ ~Readable(backup, lastOp'.arg[1]))
          => (/\ lastOp'.ret = FALSE
              /\ Vals(heap', tasks') = Vals(heap, tasks)
              /\ file' = file)]_vars

\* C9's case: a restore from a file that is not JSON failed on a store that
\* holds records and has a good backup
C9_Witness ==
    /\ lastOp.op = "restore_from_backup"
    /\ lastOp.arg = <<"corrupt">>
    /\ ~lastOp.ret
    /\ tasks # <<>>
    /\ Readable(backup, "backup")
    /\ file.present

\* the ids of the records with this status
WithStatus(h, ts, st) == {h[ts[i]].id : i \in {k \in 1..Len(ts) : h[ts[k]].status = st}}

\* C10 as stated: a stored record's status only goes from pending to
\* completed: no id seen completed is seen pending in the store afterwards.
C10_StatusOneWay ==
    [][WithStatus(heap, tasks, "completed") \cap WithStatus(heap', tasks', "pending")
          = {}]_vars

\* the store an operation starts from: a handler of the application starts
\* from the store its script run loaded from the backing file, a call of
\* backup_tasks from the store it is made on
StartedFrom(op) ==
    IF op = "backup_tasks" THEN [heap |-> heap, tasks |-> tasks] ELSE TaskStorage(file)

\* C10, amended: no operation other than restore_from_backup takes a record
\* of the store it started from, from completed to pending, or brings a
\* record into the store other than a new one with a fresh id;
\* restore_from_backup puts back the records of the backup, with the status
\* they had then (and when its save failed, the next script run finds the
\* records of the backing file again).
C10_StatusOneWayExceptRestore ==
    [][lastOp'.op # "restore_from_backup"
          => \E pre \in {StartedFrom(lastOp'.op)} :
              /\ WithStatus(pre.heap, pre.tasks, "completed")
                    \cap WithStatus(heap', tasks', "pending") = {}
              /\ StoredIds(pre.heap, pre.tasks) \subseteq 1..nextId
              /\ StoredIds(heap', tasks') \ StoredIds(pre.heap, pre.tasks)
                    \subseteq {nextId + 1}]_vars

\* C10's case: a task was marked complete and is stored as completed
C10_Witness ==
    /\ lastOp.op = "mark_complete"
    /\ lastOp.ret
    /\ WithStatus(heap, tasks, "completed") # {}
    /\ backup.present

\* a record in memory has completed_date exactly when it is completed
DatedIffCompleted(rec) == (rec.completed_date # <<>>) <=> (rec.status = "completed")

\* the same for an object of a JSON file
DatedIffCompletedObj(obj) == ("completed_date" \in DOMAIN obj) <=> (obj.status = "completed")

\* C11: in every state the application reaches (add form, mark complete,
\* edit save, auto-organize, delete, backup, restore) each stored record,
\* in memory and in the backing file, has a completed_date exactly when
\* its status is completed.
C11_CompletedDateIffCompleted ==
    /\ \A i \in 1..Len(tasks) : DatedIffCompleted(heap[tasks[i]])
    /\ \A i \in 1..Len(file.objs) : DatedIffCompletedObj(file.objs[i])

\* C11's case: a completed record, with its date, was put back by a restore
\* and is in memory and in the backing file
C11_Witness ==
    /\ lastOp.op = "restore_from_backup"
    /\ lastOp.ret
    /\ \E i \in 1..Len(tasks) :
          /\ heap[tasks[i]].status = "completed"
          /\ heap[tasks[i]].completed_date # <<>>
    /\ \E i \in 1..Len(file.objs) :
          /\ file.objs[i].status = "completed"
          /\ "completed_date" \in DOMAIN file.objs[i]

====
